---- MODULE Spec2Model ----
(***************************************************************************)
(* Model of src/main.py (class ExpenseTracker): one invocation constructs  *)
(* the tracker (load_config, authenticate_google) and runs process_emails, *)
(* which searches the inbox, and per message fetches it, extracts a        *)
(* record, appends it to the spreadsheet and stores the \Seen flag.        *)
(*                                                                         *)
(* The mailbox, the token file and the Drive files outlive an invocation;  *)
(* everything else is rebuilt by the next one.                             *)
(*                                                                         *)
(* Two behaviours of the IMAP server are not decided by the code and are   *)
(* chosen in Init:                                                         *)
(*   searchMode    how the server treats the search string of line 69,     *)
(*                 '(UNSEEN SUBJECT "receipt" OR SUBJECT "invoice")'.      *)
(*                 In RFC 3501 OR is a prefix operator with two operands;  *)
(*                 here it has one, so a strict server answers BAD and     *)
(*                 imaplib raises ("bad"). A server that accepts the text  *)
(*                 reads OR infix, with juxtaposition binding tighter      *)
(*                 ("infix_loose": (UNSEEN receipt) OR invoice) or looser  *)
(*                 ("infix_tight": UNSEEN (receipt OR invoice)).           *)
(*   fetchSetsSeen whether FETCH (RFC822) of line 80 sets \Seen itself.    *)
(*                 RFC 3501 6.4.5: RFC822 is BODY[] and sets \Seen in a    *)
(*                 mailbox selected read-write (line 66 uses select, not   *)
(*                 examine); FALSE covers a mailbox where it does not.     *)
(***************************************************************************)
EXTENDS Integers, Sequences, FiniteSets, TLC

NumMsgs == 2
MaxRuns == 2
MaxSheets == 2

Msgs == 1..NumMsgs
SheetIds == 1..MaxSheets
Subjects == {"receipt", "invoice", "other"}
SearchModes == {"bad", "infix_loose", "infix_tight"}

VARIABLES
  subject,        \* Msgs -> subject of the message (read-only input)
  seen,           \* Msgs -> \Seen flag in the mailbox
  searchMode,     \* the server's treatment of the search string
  fetchSetsSeen,  \* the server sets \Seen on FETCH (RFC822)
  tokenFile,      \* token.pickle: Absent or the pickled credential
  files,          \* Drive: ids of the spreadsheets with the configured name
  grid,           \* SheetIds -> rows of the worksheet, top to bottom
  pc,             \* position of the invocation
  mail,           \* the local variable mail of process_emails
  queue,          \* identifiers of messages[0].split() not yet iterated
  services,       \* credential the two services were built with, or "none"
  run,            \* number of the invocation
  auth,           \* what authenticate_google did in this invocation
  runh,           \* what process_emails did in this invocation
  created,        \* ids created by spreadsheets().create, all invocations
  appendOk        \* Msgs -> number of successful values().append calls

vars == <<subject, seen, searchMode, fetchSetsSeen, tokenFile, files, grid,
          pc, mail, queue, services, run, auth, runh, created, appendOk>>

mailbox == <<subject, searchMode, fetchSetsSeen>>

----------------------------------------------------------------------------
(* Credentials *)

\* present: token.pickle exists (as a file) / creds is not None (as a value)
NoCreds == [present |-> FALSE, token |-> FALSE, expired |-> FALSE, refresh_token |-> FALSE]
Absent == NoCreds
Creds == [present : {TRUE}, token : BOOLEAN, expired : BOOLEAN, refresh_token : BOOLEAN]

\* google.oauth2 Credentials.valid: a token is held and it is not expired
Valid(c) == c.present /\ c.token /\ ~c.expired

\* line 36: if not creds or not creds.valid
NeedsNewCreds(c) == ~c.present \/ ~Valid(c)

\* the test of creds.expired left out
RefreshableAnyExpiry(c) == c.present /\ c.refresh_token

\* line 37: if creds and creds.expired and creds.refresh_token
Refreshable(c) == c.present /\ c.expired /\ c.refresh_token

\* line 38: creds.refresh(Request()) renews the token in place
Refreshed(c) == [c EXCEPT !.token = TRUE, !.expired = FALSE]

\* line 42: flow.run_local_server returns a fresh credential
FlowCreds(rt) == [present |-> TRUE, token |-> TRUE, expired |-> FALSE, refresh_token |-> rt]

\* lines 32-34: creds = None, replaced by the pickled object when the file exists
LoadToken(tf) == IF tf.present THEN tf ELSE NoCreds

AuthFailPoints == {"none", "config", "load", "refresh", "flow", "write", "build"}

NoAuth == [entered |-> FALSE, token0 |-> NoCreds, refreshCalls |-> 0, flowCalls |-> 0,
           writes |-> 0, error |-> "none", returned |-> FALSE]

----------------------------------------------------------------------------
(* Mailbox *)

HasReceipt(m) == subject[m] = "receipt"
HasInvoice(m) == subject[m] = "invoice"

\* line 69: the messages the server returns for the search string, by the
\* way it reads the string; no result under "bad" (imaplib raises)
Matches(mode, s, m) ==
  CASE mode = "infix_loose" -> (~s[m] /\ HasReceipt(m)) \/ HasInvoice(m)
    [] mode = "infix_tight" -> ~s[m] /\ (HasReceipt(m) \/ HasInvoice(m))
    [] OTHER -> FALSE

SearchResult(mode, s) == {m \in Msgs : Matches(mode, s, m)}

RECURSIVE Ascending(_)
\* messages[0].split(): the server lists sequence numbers in ascending order
Ascending(S) ==
  IF S = {} THEN <<>>
  ELSE LET lo == CHOOSE x \in S : \A y \in S : x <= y
       IN <<lo>> \o Ascending(S \ {lo})

\* line 80: FETCH (RFC822) of m; the server may set \Seen as a side effect
FetchFlags(s, m) == IF fetchSetsSeen THEN [s EXCEPT ![m] = TRUE] ELSE s

\* the store left out
StoreNothing(s, m) == s

\* line 93: mail.store(msg_id, '+FLAGS', '\\Seen')
StoreSeen(s, m) == [s EXCEPT ![m] = TRUE]

----------------------------------------------------------------------------
(* Sheet *)

Header == [date |-> "Date", description |-> "Description", amount |-> "Amount",
           category |-> "Category", msg |-> 0]

\* lines 109-120: description is the subject; msg records which message the
\* row was extracted from (two messages may carry the same subject)
ExtractExpenseData(m) ==
  [date |-> "today", description |-> subject[m], amount |-> "0.0",
   category |-> "Other", msg |-> m]

\* a query that matches no file
LookupNothing(fs) == {}

\* lines 148-154: the ids files().list returns for the configured name
Lookup(fs) == fs

\* lines 176-181: values().update of A1:D1 with the header
UpdateHeader(rows) == IF rows = <<>> THEN <<Header>> ELSE [rows EXCEPT ![1] = Header]

\* lines 138-143: values().append inserts the row after the existing data
AppendRow(rows, row) == Append(rows, row)

FailPoints == {"none", "fetch", "extract", "list", "create", "header", "append", "store"}

\* lines 145-183 with the failing call failAt; pick is files[0] when the
\* search finds files and the id of the new spreadsheet otherwise
GetOrCreateSpreadsheet(fs, g, cr, failAt, pick) ==
  IF failAt = "list"
  THEN [ok |-> FALSE, id |-> 0, files |-> fs, grid |-> g, created |-> cr]
  ELSE IF Lookup(fs) # {}
  THEN [ok |-> TRUE, id |-> pick, files |-> fs, grid |-> g, created |-> cr]
  ELSE IF failAt = "create"
  THEN [ok |-> FALSE, id |-> 0, files |-> fs, grid |-> g, created |-> cr]
  ELSE IF failAt = "header"
  THEN [ok |-> FALSE, id |-> 0, files |-> fs \cup {pick},
        grid |-> [g EXCEPT ![pick] = <<>>], created |-> cr \cup {pick}]
  ELSE [ok |-> TRUE, id |-> pick, files |-> fs \cup {pick},
        grid |-> [g EXCEPT ![pick] = UpdateHeader(<<>>)], created |-> cr \cup {pick}]

\* the values pick can take in GetOrCreateSpreadsheet
PickOk(fs, failAt, pick) ==
  IF Lookup(fs) # {} THEN pick \in Lookup(fs) /\ failAt \notin {"create", "header"}
  ELSE IF SheetIds \ fs = {} THEN failAt \in {"list", "create"} /\ pick = 1
  ELSE pick = CHOOSE x \in SheetIds \ fs : \A y \in SheetIds \ fs : x <= y

\* lines 122-143
AddToSheet(fs, g, cr, row, failAt, pick) ==
  LET s == GetOrCreateSpreadsheet(fs, g, cr, failAt, pick)
  IN  IF ~s.ok \/ failAt = "append"
      THEN [s EXCEPT !.ok = FALSE]
      ELSE [s EXCEPT !.grid = [s.grid EXCEPT ![s.id] = AppendRow(s.grid[s.id], row)]]

----------------------------------------------------------------------------
(* History of one invocation *)

NoRun(s, g, fs) ==
  [seen0 |-> s, grid0 |-> g, files0 |-> fs,
   connError |-> "none", searched |-> FALSE, selected |-> {},
   attempted |-> {}, outcome |-> [m \in Msgs |-> "unattempted"],
   appended |-> [m \in Msgs |-> 0],
   errLogged |-> 0, logoutAttempts |-> 0, logoutCalls |-> 0, raised |-> FALSE]

----------------------------------------------------------------------------
(* __init__: load_config, authenticate_google *)

\* lines 29-48 with the failing call failAt; rt: the interactive flow
\* returns a refresh token
AuthenticateGoogle(tf, failAt, rt) ==
  LET c0 == LoadToken(tf)
      h0 == [NoAuth EXCEPT !.entered = TRUE, !.token0 = c0]
  IN  IF failAt = "load"
      THEN [ok |-> FALSE, tokenFile |-> tf, creds |-> NoCreds,
            auth |-> [NoAuth EXCEPT !.error = "load"]]
      ELSE IF ~NeedsNewCreds(c0)
      THEN [ok |-> failAt # "build", tokenFile |-> tf, creds |-> c0,
            auth |-> [h0 EXCEPT !.error = failAt]]
      ELSE LET refresh == Refreshable(c0)
               h1 == IF refresh THEN [h0 EXCEPT !.refreshCalls = 1]
                                ELSE [h0 EXCEPT !.flowCalls = 1]
               c1 == IF refresh THEN Refreshed(c0) ELSE FlowCreds(rt)
           IN  IF failAt \in {"refresh", "flow", "write"}
               THEN [ok |-> FALSE, tokenFile |-> tf, creds |-> NoCreds,
                     auth |-> [h1 EXCEPT !.error = failAt]]
               ELSE [ok |-> failAt # "build", tokenFile |-> c1, creds |-> c1,
                     auth |-> [h1 EXCEPT !.writes = 1, !.error = failAt]]

\* the calls that authenticate_google makes for the token file tf
AuthReaches(tf, failAt) ==
  LET c0 == LoadToken(tf)
  IN  CASE failAt = "load" -> tf # Absent
        [] failAt = "refresh" -> NeedsNewCreds(c0) /\ Refreshable(c0)
        [] failAt = "flow" -> NeedsNewCreds(c0) /\ ~Refreshable(c0)
        [] failAt = "write" -> NeedsNewCreds(c0)
        [] OTHER -> TRUE

\* lines 20-22, 192: an error of load_config or authenticate_google is not
\* caught anywhere, the process ends before run()
Construct ==
  /\ pc = "init"
  /\ \E failAt \in AuthFailPoints, rt \in BOOLEAN :
       IF failAt = "config"
       THEN /\ rt
            /\ pc' = "fatal"
            /\ auth' = [NoAuth EXCEPT !.error = "config"]
            /\ UNCHANGED <<tokenFile, services>>
       ELSE /\ AuthReaches(tokenFile, failAt)
            /\ rt \/ (NeedsNewCreds(LoadToken(tokenFile)) /\ ~Refreshable(LoadToken(tokenFile)))
            /\ LET r == AuthenticateGoogle(tokenFile, failAt, rt)
               IN  /\ tokenFile' = r.tokenFile
                   /\ auth' = [r.auth EXCEPT !.returned = r.ok]
                   /\ services' = IF r.ok THEN r.creds ELSE NoCreds
                   /\ pc' = IF r.ok THEN "ready" ELSE "fatal"
  /\ UNCHANGED <<mailbox, seen, files, grid, mail, queue, run, runh, created, appendOk>>

----------------------------------------------------------------------------
(* process_emails *)

ConnSteps == {"none", "connect", "login", "select", "search"}

\* no except clause: the error leaves process_emails after the finally block
OuterHandlerReraises(h, step) ==
  [pc |-> "finally", queue |-> <<>>,
   runh |-> [h EXCEPT !.connError = step, !.raised = TRUE]]

\* lines 100-101: except Exception prints the error; control goes to finally
OuterHandler(h, step) ==
  [pc |-> "finally", queue |-> <<>>,
   runh |-> [h EXCEPT !.connError = step, !.errLogged = @ + 1]]

\* lines 71-73: return inside try, so finally runs next
EarlyReturn == "finally"

\* lines 52-76: step is the call that raises
ConnectAndSearch ==
  /\ pc = "ready"
  /\ \E step \in ConnSteps :
       /\ searchMode = "bad" => step # "none"
       /\ mail' = IF step = "connect" THEN "unbound" ELSE "bound"
       /\ IF step # "none"
          THEN LET r == OuterHandler(runh, step)
               IN  pc' = r.pc /\ queue' = r.queue /\ runh' = r.runh
          ELSE LET sel == SearchResult(searchMode, seen)
               IN  /\ runh' = [runh EXCEPT !.searched = TRUE, !.selected = sel]
                   /\ queue' = Ascending(sel)
                   /\ pc' = IF sel = {} THEN EarlyReturn ELSE "loop"
  /\ UNCHANGED <<mailbox, seen, tokenFile, files, grid, services, run, auth,
                 created, appendOk>>

\* the error of one message ends the loop
NextIdsAbort(q, failAt) == IF failAt = "none" THEN Tail(q) ELSE <<>>

\* lines 96-98: except Exception prints the error and continues with the
\* next identifier; line 78 does the same after a message without error
NextIds(q, failAt) == Tail(q)

\* lines 78-98: one iteration of the loop, failAt is the call that fails
\* (a store that fails leaves the flag alone whether it raises or answers
\* NO; the dict of extract_expense_data is never empty, so line 88 is taken)
ProcessMessage ==
  /\ pc = "loop"
  /\ queue # <<>>
  /\ \E failAt \in FailPoints, pick \in SheetIds :
       LET m == Head(queue)
           fetched == failAt # "fetch"
           s1 == IF fetched THEN FetchFlags(seen, m) ELSE seen
           toSheet == fetched /\ failAt # "extract"
           r == AddToSheet(files, grid, created, ExtractExpenseData(m), failAt, pick)
           added == toSheet /\ r.ok
           stored == added /\ failAt # "store"
       IN  /\ IF toSheet THEN PickOk(files, failAt, pick) ELSE pick = 1
           /\ seen' = IF stored THEN StoreSeen(s1, m) ELSE s1
           /\ files' = IF toSheet THEN r.files ELSE files
           /\ grid' = IF toSheet THEN r.grid ELSE grid
           /\ created' = IF toSheet THEN r.created ELSE created
           /\ appendOk' = IF added THEN [appendOk EXCEPT ![m] = @ + 1] ELSE appendOk
           /\ runh' = [runh EXCEPT !.attempted = @ \cup {m},
                                   !.outcome[m] = IF failAt = "none" THEN "ok" ELSE failAt,
                                   !.appended[m] = IF added THEN @ + 1 ELSE @]
           /\ queue' = NextIds(queue, failAt)
           /\ pc' = IF queue' = <<>> THEN "finally" ELSE "loop"
  /\ UNCHANGED <<mailbox, tokenFile, mail, services, run, auth>>

\* mail.logout() outside try/except
LogoutUnguarded(exc) == TRUE

\* lines 104-107: the bare except swallows whatever mail.logout() raises,
\* the NameError of an unbound mail included
LogoutHandler(exc) == FALSE

\* lines 103-107
Logout ==
  /\ pc = "finally"
  /\ \E fails \in BOOLEAN :
       LET exc == IF mail = "unbound" THEN "NameError"
                  ELSE IF fails THEN "error" ELSE "none"
       IN  /\ mail = "unbound" => fails
           /\ runh' = [runh EXCEPT !.logoutAttempts = @ + 1,
                                   !.logoutCalls = IF mail = "bound" THEN @ + 1 ELSE @,
                                   !.raised = IF exc = "none" THEN @ ELSE @ \/ LogoutHandler(exc)]
           /\ mail' = IF mail = "bound" THEN "closed" ELSE mail
           /\ pc' = "done"
  /\ UNCHANGED <<mailbox, seen, tokenFile, files, grid, queue, services, run, auth,
                 created, appendOk>>

----------------------------------------------------------------------------
(* Between invocations *)

\* line 190-193: the script is started again
NextRun ==
  /\ pc \in {"done", "fatal"}
  /\ run < MaxRuns
  /\ run' = run + 1
  /\ pc' = "init"
  /\ mail' = "unbound"
  /\ queue' = <<>>
  /\ services' = NoCreds
  /\ auth' = NoAuth
  /\ runh' = NoRun(seen, grid, files)
  /\ UNCHANGED <<mailbox, seen, tokenFile, files, grid, created, appendOk>>

\* the access token of the stored credential reaches its expiry
TokenExpires ==
  /\ pc = "init"
  /\ tokenFile # Absent
  /\ ~tokenFile.expired
  /\ tokenFile' = [tokenFile EXCEPT !.expired = TRUE]
  /\ UNCHANGED <<mailbox, seen, files, grid, pc, mail, queue, services, run, auth,
                 runh, created, appendOk>>

----------------------------------------------------------------------------

\* what every specification starts from: nothing has run yet
InitCommon ==
  /\ grid \in [SheetIds -> {<<>>, <<Header>>}]
  /\ \A i \in SheetIds \ files : grid[i] = <<>>
  /\ pc = "init"
  /\ mail = "unbound"
  /\ queue = <<>>
  /\ services = NoCreds
  /\ run = 1
  /\ auth = NoAuth
  /\ runh = NoRun(seen, grid, files)
  /\ created = {}
  /\ appendOk = [m \in Msgs |-> 0]

\* the subjects of a new inbox, one kind after the other
Incoming(m) ==
  CASE m % 3 = 1 -> "invoice"
    [] m % 3 = 2 -> "receipt"
    [] OTHER -> "other"

\* a first installation: no token file, new mail only, and a spreadsheet of
\* the configured name with its header may exist
Init ==
  /\ subject = [m \in Msgs |-> Incoming(m)]
  /\ seen = [m \in Msgs |-> FALSE]
  /\ searchMode \in SearchModes
  /\ fetchSetsSeen \in BOOLEAN
  /\ tokenFile = Absent
  /\ files \in {{}, {1}}
  /\ InitCommon
  /\ \A i \in files : grid[i] = <<Header>>

\* any inbox and any server; the spreadsheet of the configured name is
\* missing, empty or holds its header
InitOne ==
  /\ subject \in [Msgs -> Subjects]
  /\ seen \in [Msgs -> BOOLEAN]
  /\ searchMode \in SearchModes
  /\ fetchSetsSeen \in BOOLEAN
  /\ tokenFile = Absent
  /\ files \in {{}, {1}}
  /\ InitCommon

\* any token file
InitAuth ==
  /\ subject = [m \in Msgs |-> Incoming(m)]
  /\ seen = [m \in Msgs |-> FALSE]
  /\ searchMode = "infix_tight"
  /\ fetchSetsSeen \in BOOLEAN
  /\ tokenFile \in {Absent} \cup Creds
  /\ files = {}
  /\ InitCommon

\* one invocation of the script
Invocation ==
  \/ Construct
  \/ ConnectAndSearch
  \/ ProcessMessage
  \/ Logout

Next ==
  \/ Construct
  \/ ConnectAndSearch
  \/ ProcessMessage
  \/ Logout
  \/ NextRun
  \/ TokenExpires

\* successive invocations of a first installation
Spec == Init /\ [][Next]_vars

\* one invocation on any inbox
SpecOne == InitOne /\ [][Invocation]_vars

\* one invocation with any token file
SpecAuth == InitAuth /\ [][Invocation]_vars

----------------------------------------------------------------------------
(* What the claims speak of *)

\* the data rows of message m in the worksheets g
RowsOf(g, m) == UNION {{<<i, k>> : k \in {j \in 1..Len(g[i]) : g[i][j].msg = m}} :
                         i \in SheetIds}

\* rows appended for m since the invocation began
RowsAdded(m) == Cardinality(RowsOf(grid, m)) - Cardinality(RowsOf(runh.grid0, m))

SubjectMatches(m) == subject[m] \in {"receipt", "invoice"}

FailedBeforeStore == {"fetch", "extract", "list", "create", "header", "append"}

HeaderRows(rows) == {k \in 1..Len(rows) : rows[k] = Header}
DataRows(rows) == {k \in 1..Len(rows) : rows[k].msg \in Msgs}

----------------------------------------------------------------------------
\* C1: when process_emails has ended, every message that was unread, matches
\* the subject filter and went through fetch, extraction, add_to_sheet and
\* the store without error has exactly one more row in the sheet than before
\* the run, and its read flag is set.
C1_OneRowAndRead ==
  pc = "done" =>
    \A m \in Msgs :
      (~runh.seen0[m] /\ SubjectMatches(m) /\ runh.outcome[m] = "ok")
        => (RowsAdded(m) = 1 /\ seen[m])

C1_Witness ==
  /\ pc = "done"
  /\ \E m \in Msgs : ~runh.seen0[m] /\ SubjectMatches(m) /\ runh.outcome[m] = "ok"
                     /\ RowsAdded(m) = 1

\* C2: when process_emails has ended, a message that does not match the
\* subject filter, or that was read when the run began, has no new row and
\* the read flag it had.
C2_OthersUntouched ==
  pc = "done" =>
    \A m \in Msgs :
      (~SubjectMatches(m) \/ runh.seen0[m])
        => (RowsAdded(m) = 0 /\ seen[m] = runh.seen0[m])

\* C3: when the search has returned identifiers and the loop has ended,
\* every identifier was fetched, whichever of them failed, and every one
\* whose own processing did not fail has one new row and is read.
C3_OthersStillProcessed ==
  (pc = "done" /\ runh.searched) =>
    \A m \in runh.selected :
      /\ m \in runh.attempted
      /\ runh.outcome[m] = "ok" => (RowsAdded(m) = 1 /\ seen[m])

C3_Witness ==
  /\ pc = "done"
  /\ \E bad \in runh.selected :
       /\ runh.outcome[bad] \in FailedBeforeStore
       /\ runh.selected # {bad}
       /\ \A m \in runh.selected \ {bad} :
            bad < m /\ runh.outcome[m] = "ok" /\ RowsAdded(m) = 1 /\ seen[m]

\* C4: at most one spreadsheet of the configured name exists and at most one
\* was created; a spreadsheet that existed when an invocation began is the
\* one that exists afterwards; no spreadsheet is created when one existed
\* before the first invocation; rows are only in that spreadsheet.
C4_OneSpreadsheet ==
  /\ Cardinality(created) <= 1
  /\ Cardinality(files) <= 1
  /\ created \subseteq files
  /\ runh.files0 # {} => files = runh.files0
  /\ (1 \in files /\ 1 \notin created) => created = {}
  /\ \A i \in SheetIds : grid[i] # <<>> => i \in files

C4_Witness ==
  /\ run = 2
  /\ Cardinality(created) = 1
  /\ \E m \in Msgs : Cardinality(RowsOf(runh.grid0, m)) = 1 /\ RowsAdded(m) = 1

\* C5: a spreadsheet created by the program that holds a data row has the
\* header as its first row and no other header row.
C5_HeaderFirst ==
  \A i \in created :
    DataRows(grid[i]) # {} => (grid[i][1] = Header /\ HeaderRows(grid[i]) = {1})

\* C6: no logout is attempted before the run leaves the try block; when
\* process_emails has ended exactly one was attempted, no identifier is left
\* to process, and no error left process_emails - also when mail was never
\* bound.
C6_LogoutOnce ==
  /\ pc \in {"init", "ready", "loop", "finally", "fatal"} => runh.logoutAttempts = 0
  /\ pc = "done" =>
       /\ runh.logoutAttempts = 1
       /\ ~runh.raised
       /\ queue = <<>>
       /\ runh.searched => runh.attempted = runh.selected

C6_Witness ==
  /\ pc = "done"
  /\ runh.connError = "connect"
  /\ mail = "unbound"
  /\ runh.logoutAttempts = 1
  /\ runh.logoutCalls = 0

\* C7: after a failure of connect, login, select or search no message was
\* fetched, the sheets, the spreadsheets and the read flags are as before
\* the run, the error was printed once, and process_emails returns normally.
C7_ConnectionFailureAborts ==
  (pc \in {"finally", "done"} /\ runh.connError # "none") =>
    /\ runh.attempted = {}
    /\ grid = runh.grid0
    /\ files = runh.files0
    /\ seen = runh.seen0
    /\ runh.errLogged = 1
    /\ ~runh.raised

C7_Witness ==
  /\ pc = "done"
  /\ runh.connError = "search"
  /\ searchMode # "bad"
  /\ \E m \in Msgs : ~seen[m] /\ SubjectMatches(m)

\* C8: authenticate_google reuses a present, valid credential without
\* refresh, flow or write; refreshes an expired one that has a refresh token
\* and rewrites the file; runs the flow and writes its result otherwise;
\* builds the services with a credential when it returns; and an error of
\* refresh or flow ends the process before process_emails.
C8_AuthPaths ==
  auth.entered =>
    LET c == auth.token0
    IN  /\ (c.present /\ c.token /\ ~c.expired)
             => /\ auth.refreshCalls = 0 /\ auth.flowCalls = 0 /\ auth.writes = 0
                /\ tokenFile = c
        /\ (c.present /\ c.expired /\ c.refresh_token)
             => /\ auth.refreshCalls = 1 /\ auth.flowCalls = 0
                /\ auth.returned => (auth.writes = 1 /\ tokenFile = [c EXCEPT !.token = TRUE, !.expired = FALSE])
        /\ ~(c.present /\ c.token /\ ~c.expired) /\ ~(c.present /\ c.expired /\ c.refresh_token)
             => /\ auth.flowCalls = 1 /\ auth.refreshCalls = 0
                /\ auth.returned => (auth.writes = 1 /\ tokenFile.present /\ tokenFile.token /\ ~tokenFile.expired)
        /\ auth.returned => (services.present /\ services = tokenFile /\ pc # "fatal")
        /\ auth.error \in {"refresh", "flow"}
             => /\ pc = "fatal" /\ ~auth.returned /\ auth.writes = 0
                /\ ~runh.searched /\ runh.connError = "none" /\ runh.logoutAttempts = 0

C8_Witness ==
  /\ pc = "done"
  /\ auth.token0.present /\ auth.token0.expired /\ auth.token0.refresh_token
  /\ auth.refreshCalls = 1
  /\ auth.returned
  /\ tokenFile # auth.token0

\* C9: a read flag that was clear when the run began is set only for a
\* message whose row was appended in this run, and a message whose fetch,
\* extraction or add_to_sheet failed is still unread when the run has ended.
C9_ReadOnlyAfterAppend ==
  /\ \A m \in Msgs : (seen[m] /\ ~runh.seen0[m]) => RowsAdded(m) >= 1
  /\ pc = "done" =>
       \A m \in Msgs :
         (~runh.seen0[m] /\ runh.outcome[m] \in FailedBeforeStore) => ~seen[m]

\* C10: rows are never taken back: every successful append of a message is
\* a row of the sheet; and a message whose append succeeded and whose store
\* failed is unread when the run has ended, so the next run finds it again.
C10_NoRollbackStaysUnread ==
  /\ \A m \in Msgs : Cardinality(RowsOf(grid, m)) = appendOk[m]
  /\ pc = "done" =>
       \A m \in Msgs :
         (~runh.seen0[m] /\ runh.outcome[m] = "store") => (RowsAdded(m) = 1 /\ ~seen[m])

====
